---- MODULE Spec2Model ----
(***************************************************************************)
(* Model of kudu's wire protocol helpers (src/common/wire_protocol.cc):    *)
(* Status <-> AppStatusPB, Schema <-> ColumnSchemaPB list, and the         *)
(* row block encoder / decoder working on raw row bytes.                   *)
(***************************************************************************)
EXTENDS Integers, Sequences, FiniteSets, TLC

VARIABLES
  \* ---- status conversion ----
  st,          \* the Status handed to StatusToPB
  st_pb,       \* the AppStatusPB
  st_out,      \* the Status returned by StatusFromPB
  st_pc,       \* "start" | "encoded" | "decoded"
  \* ---- schema conversion ----
  schema_in,   \* the Schema handed to SchemaToColumnPBs (NoSchema if none)
  column_pbs,  \* RepeatedPtrField<ColumnSchemaPB>
  schema_out,  \* the Schema object the caller passes to ColumnPBsToSchema
  schema_pre,  \* that Schema object as it was when the call was made
  sch_status,  \* the Status ColumnPBsToSchema returned
  sch_pc,      \* "start" | "wire" | "done"
  \* ---- row block ----
  schema,      \* the Schema of the block
  src_rows,    \* the caller's rows handed to AddRowToRowBlockPB, in order: each as
               \* it was given and as it lies in the caller's memory now
  rowblock_pb, \* RowwiseRowBlockPB: [rows, indirect_data], byte strings
  tamper,      \* what happened to the block on the wire ("none" = nothing)
  call_pb,     \* the block as it was on entry to ExtractRowsFromRowBlockPB
  rows,        \* vector<const uint8_t*>* rows, as offsets into rowblock_pb.rows
  rows_pre,    \* that vector as it was on entry to ExtractRowsFromRowBlockPB
  ex_status,   \* the Status ExtractRowsFromRowBlockPB returned
  blk_pc       \* "encode" | "received" | "done"

status_vars == <<st, st_pb, st_out, st_pc>>
schema_vars == <<schema_in, column_pbs, schema_out, schema_pre, sch_status, sch_pc>>
block_vars  == <<schema, src_rows, rowblock_pb, tamper, call_pb, rows,
                 rows_pre, ex_status, blk_pc>>
vars == <<status_vars, schema_vars, block_vars>>

\* ---------------------------------------------------------------- bounds
MaxCols == 2      \* columns of a row block's schema
MaxRows == 2      \* rows appended to a block
MaxPBs  == 3      \* entries of a wire column list

\* ---------------------------------------------------------------- Status

\* Status::OK(): no message, posix_code() is -1
StatusOK == [code |-> "OK", msg |-> "", posix_code |-> -1]

\* Status::NotFound(msg, msg2, posix_code) and its siblings: the message is
\* msg, followed by ": " and msg2 when msg2 is not empty
MakeStatus(code, msg, msg2, posix_code) ==
  [code |-> code,
   msg |-> IF msg2 = "" THEN msg ELSE msg \o ": " \o msg2,
   posix_code |-> posix_code]

\* the kinds of Status the conversions name
ErrorKinds == {"NotFound", "Corruption", "NotSupported", "InvalidArgument",
               "IOError", "AlreadyPresent", "RuntimeError", "NetworkError"}

\* Status::CodeAsString(): the name of the kind
CodeAsString(status) == status.code

\* AppStatusPB after Clear()
ClearedStatusPB ==
  [code |-> "UNKNOWN_ERROR", has_message |-> FALSE, message |-> "",
   has_posix_code |-> FALSE, posix_code |-> 0]

\* the chain of status.IsXxx() tests of StatusToPB
WireCodeOf(status) ==
  CASE status.code = "NotFound"        -> "NOT_FOUND"
    [] status.code = "Corruption"      -> "CORRUPTION"
    [] status.code = "NotSupported"    -> "NOT_SUPPORTED"
    [] status.code = "InvalidArgument" -> "INVALID_ARGUMENT"
    [] status.code = "IOError"         -> "IO_ERROR"
    [] status.code = "RuntimeError"    -> "RUNTIME_ERROR"
    [] status.code = "NetworkError"    -> "NETWORK_ERROR"
    [] OTHER                           -> "UNKNOWN_ERROR"

StatusToPB(status) ==
  IF status.code = "OK"
  THEN [ClearedStatusPB EXCEPT !.code = "OK"]
  ELSE LET code == WireCodeOf(status)
           is_unknown == code = "UNKNOWN_ERROR"
           message == IF is_unknown
                      THEN CodeAsString(status) \o ": " \o status.msg
                      ELSE status.msg
           with_msg == [ClearedStatusPB EXCEPT !.code = code,
                                               !.has_message = TRUE,
                                               !.message = message]
       IN IF status.posix_code # -1
          THEN [with_msg EXCEPT !.has_posix_code = TRUE,
                                !.posix_code = status.posix_code]
          ELSE with_msg

StatusFromPB(pb) ==
  LET posix_code == IF pb.has_posix_code THEN pb.posix_code ELSE -1
  IN CASE pb.code = "OK"               -> StatusOK
       [] pb.code = "NOT_FOUND"        -> MakeStatus("NotFound", pb.message, "", posix_code)
       [] pb.code = "CORRUPTION"       -> MakeStatus("Corruption", pb.message, "", posix_code)
       [] pb.code = "NOT_SUPPORTED"    -> MakeStatus("NotSupported", pb.message, "", posix_code)
       [] pb.code = "INVALID_ARGUMENT" -> MakeStatus("InvalidArgument", pb.message, "", posix_code)
       [] pb.code = "IO_ERROR"         -> MakeStatus("IOError", pb.message, "", posix_code)
       [] pb.code = "ALREADY_PRESENT"  -> MakeStatus("AlreadyPresent", pb.message, "", posix_code)
       [] pb.code = "RUNTIME_ERROR"    -> MakeStatus("RuntimeError", pb.message, "", posix_code)
       [] pb.code = "NETWORK_ERROR"    -> MakeStatus("NetworkError", pb.message, "", posix_code)
       [] OTHER -> MakeStatus("RuntimeError", "(unknown error code)", pb.message, posix_code)

\* the statuses a caller builds, as the tests do: Status::NotFound("foo", "bar", 1234)
StatusInputs ==
  {StatusOK} \cup
  {MakeStatus(k, m, m2, p) : k \in ErrorKinds, m \in {"", "foo"},
                             m2 \in {"", "bar"}, p \in {-1, 2, 1234}}

\* ---------------------------------------------------------------- Schema

Types == {"STRING", "UINT32"}

\* ColumnSchema(name, type, is_nullable)
ColumnSchema(name, type, is_nullable) ==
  [name |-> name, type |-> type, is_nullable |-> is_nullable]

\* Schema(): no columns, no key columns
EmptySchema == [cols |-> <<>>, num_key_columns |-> 0]

\* a Schema object that already holds something when it is passed as output
OldSchema == [cols |-> <<ColumnSchema("old", "UINT32", FALSE)>>, num_key_columns |-> 1]

\* the value of schema_in when the column list did not come from a Schema
NoSchema == [cols |-> <<>>, num_key_columns |-> -1]

BoolStr(b) == IF b THEN "true" ELSE "false"

\* pb.ShortDebugString() of a ColumnSchemaPB
ShortDebugString(pb) ==
  "name: " \o pb.name \o " type: " \o pb.type \o " is_key: " \o BoolStr(pb.is_key)
    \o " is_nullable: " \o BoolStr(pb.is_nullable)

ColumnSchemaToPB(col_schema) ==
  [name |-> col_schema.name, type |-> col_schema.type,
   is_nullable |-> col_schema.is_nullable, is_key |-> FALSE]

ColumnSchemaFromPB(pb) == ColumnSchema(pb.name, pb.type, pb.is_nullable)

\* Schema::Reset(cols, key_columns): the single validation gate of a Schema.
\* Rejects more key columns than columns and duplicate names; otherwise
\* commits. All-or-nothing: a rejected Reset leaves the Schema as it was.
SchemaReset(old, cols, key_columns) ==
  LET dups == {i \in 1..Len(cols) : \E j \in 1..(i - 1) : cols[j].name = cols[i].name}
      first == CHOOSE i \in dups : \A k \in dups : i <= k
  IN IF key_columns > Len(cols)
     THEN [status |-> MakeStatus("InvalidArgument", "Bad schema",
                                 "More key columns than columns", -1),
           schema |-> old]
     ELSE IF dups # {}
     THEN [status |-> MakeStatus("InvalidArgument", "Duplicate name present in schema!",
                                 cols[first].name, -1),
           schema |-> old]
     ELSE [status |-> StatusOK,
           schema |-> [cols |-> cols, num_key_columns |-> key_columns]]

\* the BOOST_FOREACH loop of ColumnPBsToSchema from entry i on, with the loop's
\* locals; bad = 0 when the loop ran to its end, else the index it returned at
RECURSIVE KeyLoop(_, _, _, _, _)
KeyLoop(pbs, i, columns, num_key_columns, is_handling_key) ==
  IF i > Len(pbs)
  THEN [bad |-> 0, columns |-> columns, num_key_columns |-> num_key_columns]
  ELSE LET pb == pbs[i]
           pushed == Append(columns, ColumnSchemaFromPB(pb))
       IN IF pb.is_key
          THEN IF ~is_handling_key
               THEN [bad |-> i, columns |-> pushed, num_key_columns |-> num_key_columns]
               ELSE KeyLoop(pbs, i + 1, pushed, num_key_columns + 1, is_handling_key)
          ELSE KeyLoop(pbs, i + 1, pushed, num_key_columns, FALSE)

\* mutant: the Schema is reset before the key order is looked at
ColumnPBsToSchemaResetFirst(pbs, out) ==
  LET loop == KeyLoop(pbs, 1, <<>>, 0, TRUE)
      cols == [i \in 1..Len(pbs) |-> ColumnSchemaFromPB(pbs[i])]
      reset == SchemaReset(out, cols, 0)
  IN IF reset.status.code # "OK"
     THEN reset
     ELSE IF loop.bad # 0
     THEN [status |-> MakeStatus("InvalidArgument", "Got out-of-order key column",
                                 ShortDebugString(pbs[loop.bad]), -1),
           schema |-> reset.schema]
     ELSE SchemaReset(out, loop.columns, loop.num_key_columns)

\* mutant: the Schema is not reset from the column list; OK is returned
ColumnPBsToSchemaNoReset(pbs, out) ==
  LET loop == KeyLoop(pbs, 1, <<>>, 0, TRUE)
  IN IF loop.bad # 0
     THEN [status |-> MakeStatus("InvalidArgument", "Got out-of-order key column",
                                 ShortDebugString(pbs[loop.bad]), -1),
           schema |-> out]
     ELSE [status |-> StatusOK, schema |-> out]

\* ColumnPBsToSchema(column_pbs, schema): the returned Status and the Schema
\* object afterwards
ColumnPBsToSchema(pbs, out) ==
  LET loop == KeyLoop(pbs, 1, <<>>, 0, TRUE)
  IN IF loop.bad # 0
     THEN [status |-> MakeStatus("InvalidArgument", "Got out-of-order key column",
                                 ShortDebugString(pbs[loop.bad]), -1),
           schema |-> out]
     ELSE SchemaReset(out, loop.columns, loop.num_key_columns)

\* mutant: is_key is set with idx <= num_key_columns
SchemaToColumnPBsOffByOne(s) ==
  [idx \in 1..Len(s.cols) |->
     [ColumnSchemaToPB(s.cols[idx]) EXCEPT !.is_key = (idx - 1) <= s.num_key_columns]]

\* SchemaToColumnPBs(schema, cols): cols afterwards (idx counts from 0 in the code)
SchemaToColumnPBs(s) ==
  [idx \in 1..Len(s.cols) |->
     [ColumnSchemaToPB(s.cols[idx]) EXCEPT !.is_key = (idx - 1) < s.num_key_columns]]

\* sequences over S of length lo..hi
SeqsOf(S, lo, hi) == UNION {[1..n -> S] : n \in lo..hi}

ColName(i) == "c" \o ToString(i - 1)

\* the valid schemas: unique names, num_key_columns <= number of columns
ValidSchemas ==
  {[cols |-> [i \in 1..Len(tn) |-> ColumnSchema(ColName(i), tn[i][1], tn[i][2])],
    num_key_columns |-> k] :
     <<tn, k>> \in {p \in SeqsOf(Types \X BOOLEAN, 0, MaxPBs) \X (0..MaxPBs) :
                      p[2] <= Len(p[1])}}

\* the column lists a peer may send
WireColumns ==
  {[name |-> n, type |-> t[1], is_nullable |-> t[2], is_key |-> k] :
     n \in {"c0", "c1", "c2"}, t \in {<<"STRING", FALSE>>, <<"UINT32", TRUE>>},
     k \in BOOLEAN}
WireColumnLists == SeqsOf(WireColumns, 0, MaxPBs)

\* ---------------------------------------------------------------- bytes

\* n as k little-endian bytes
RECURSIVE LE(_, _)
LE(n, k) == IF k = 0 THEN <<>> ELSE <<n % 256>> \o LE(n \div 256, k - 1)

\* the value of little-endian bytes (for values that fit an integer of the model)
RECURSIVE Val(_)
Val(bytes) == IF bytes = <<>> THEN 0 ELSE Head(bytes) + 256 * Val(Tail(bytes))

\* size_t / uintptr_t: 8 bytes
Word(n) ==
  <<n % 256, (n \div 256) % 256, (n \div 65536) % 256, (n \div 16777216) % 256, 0, 0, 0, 0>>
MaxWord == [i \in 1..8 |-> 255]

Bytes(b, k) == [i \in 1..k |-> b]

\* buf with bytes written at offset off (memcpy / assignment through a pointer)
Write(buf, off, bytes) ==
  SubSeq(buf, 1, off) \o bytes \o SubSeq(buf, off + Len(bytes) + 1, Len(buf))

\* the n bytes of buf at offset off
Read(buf, off, n) == SubSeq(buf, off + 1, off + n)

\* a + b on equally long little-endian byte strings, with carry in c
RECURSIVE AddCarry(_, _, _)
AddCarry(a, b, c) ==
  IF a = <<>>
  THEN [sum |-> <<>>, carry |-> c]
  ELSE LET t == Head(a) + Head(b) + c
           r == AddCarry(Tail(a), Tail(b), t \div 256)
       IN [sum |-> <<t % 256>> \o r.sum, carry |-> r.carry]

\* AddWithOverflowCheck(a, b, &overflowed) on size_t: the wrapped sum, and
\* whether it wrapped
AddWithOverflowCheck(a, b) ==
  LET r == AddCarry(a, b, 0) IN [sum |-> r.sum, overflowed |-> r.carry = 1]

\* a > b on unsigned words
WordGT(a, b) ==
  LET diff == {i \in 1..Len(a) : a[i] # b[i]}
  IN diff # {} /\ LET m == CHOOSE i \in diff : \A j \in diff : j <= i IN a[m] > b[m]

HexDigits == <<"0", "1", "2", "3", "4", "5", "6", "7", "8", "9",
               "a", "b", "c", "d", "e", "f">>

\* the text of a word in a message, most significant byte first (the code
\* prints it with %zd; a 64-bit decimal does not fit the model's integers)
RECURSIVE WordStr(_)
WordStr(w) ==
  IF w = <<>> THEN "0x"
  ELSE WordStr(Tail(w)) \o HexDigits[(Head(w) \div 16) + 1] \o HexDigits[(Head(w) % 16) + 1]

\* ---------------------------------------------------------------- memory

\* where the caller keeps the string data its rows point to, and that data
HeapBase == <<0, 32, 0, 0, 0, 0, 0, 0>>
Heap == <<97, 98, 99>>

\* where the received indirect_data string lives
IndirBase == <<0, 16, 0, 0, 0, 0, 0, 0>>

\* base + k, an address
PtrAdd(base, k) == AddCarry(base, Word(k), 0).sum

\* the bytes a Slice (ptr, size) into a buffer at base refers to
Deref(base, mem, ptr, size) ==
  LET k == CHOOSE k \in 0..Len(mem) : PtrAdd(base, k) = ptr
  IN Read(mem, k, Val(size))

\* Slice(data, size) as it lies in memory: the data pointer, then the size
SliceBytes(ptr, size) == ptr \o size
SlicePtr(cell) == SubSeq(cell, 1, 8)
SliceSize(cell) == SubSeq(cell, 9, 16)

\* ---------------------------------------------------------------- row layout

\* col.type_info().size(): a Slice for STRING, 4 bytes for UINT32
TypeSize(type) == IF type = "STRING" THEN 16 ELSE 4

NumColumns(sch) == Len(sch.cols)

NullableCols(sch) == {i \in 1..NumColumns(sch) : sch.cols[i].is_nullable}

\* the null bitmap spans one bit per nullable column
NullBitmapSize(sch) == (Cardinality(NullableCols(sch)) + 7) \div 8

\* the bit of column i in the null bitmap
NullBit(sch, i) == Cardinality({j \in NullableCols(sch) : j < i})

RECURSIVE SizeOfCols(_, _)
SizeOfCols(sch, n) ==
  IF n = 0 THEN 0 ELSE SizeOfCols(sch, n - 1) + TypeSize(sch.cols[n].type)

\* offset of column i's slot in a row: [null bitmap][column 0][column 1]...
CellOffset(sch, i) == NullBitmapSize(sch) + SizeOfCols(sch, i - 1)

\* ContiguousRowHelper::row_size(schema)
RowSize(sch) == NullBitmapSize(sch) + SizeOfCols(sch, NumColumns(sch))

RECURSIVE Pow2(_)
Pow2(n) == IF n = 0 THEN 1 ELSE 2 * Pow2(n - 1)

\* row.is_null(schema, i) on the row at offset off of data
IsNull(sch, data, off, i) ==
  LET bit == NullBit(sch, i)
      byte == data[off + (bit \div 8) + 1]
  IN (byte \div Pow2(bit % 8)) % 2 = 1

\* row.cell_ptr(schema, i): the bytes of column i's slot
Cell(sch, data, off, i) ==
  Read(data, off + CellOffset(sch, i), TypeSize(sch.cols[i].type))

\* ---------------------------------------------------------------- caller's rows

\* the schemas of row blocks: at least one column, names by position; a column
\* is a string, a nullable string or a nullable number
ColumnKinds == {<<"STRING", FALSE>>, <<"STRING", TRUE>>, <<"UINT32", TRUE>>}
BlockSchemas ==
  {[cols |-> [i \in 1..Len(tn) |-> ColumnSchema(ColName(i), tn[i][1], tn[i][2])],
    num_key_columns |-> 1] : tn \in SeqsOf(ColumnKinds, 1, MaxCols)}

\* what a RowBuilder is given for column i of the row numbered row_no: a string
\* kept in the caller's heap, or a number
Variant(row_no) == 1 + (row_no % 2)
CellBytes(type, i, v) ==
  IF type = "STRING"
  THEN SliceBytes(PtrAdd(HeapBase, (i - 1) % 2), Word((v + i) % 3))
  ELSE IF v = 1 THEN LE(i, 4) ELSE Bytes(255, 4)

RECURSIVE CellsBytes(_, _, _)
CellsBytes(sch, n, v) ==
  IF n = 0 THEN <<>>
  ELSE CellsBytes(sch, n - 1, v) \o CellBytes(sch.cols[n].type, n, v)

RECURSIVE BitmapValue(_, _, _)
BitmapValue(sch, nulls, n) ==
  IF n = 0 THEN 0
  ELSE BitmapValue(sch, nulls, n - 1) + (IF n \in nulls THEN Pow2(NullBit(sch, n)) ELSE 0)

\* rb.row() after one Add per column: the cells in nulls were added with
\* AddNull(), which sets the null bit and leaves in the slot what the builder's
\* buffer held there
BuildRow(sch, nulls, v) ==
  LE(BitmapValue(sch, nulls, NumColumns(sch)), NullBitmapSize(sch))
    \o CellsBytes(sch, NumColumns(sch), v)

\* the rows a caller may hand over as row number row_no: any of its nullable
\* columns null
SourceRows(sch, row_no) ==
  {BuildRow(sch, nulls, Variant(row_no)) : nulls \in SUBSET NullableCols(sch)}

\* ---------------------------------------------------------------- AddRowToRowBlockPB

\* mutant: a null cell is left as it was copied
EncodeCellNoZero(sch, m, appended_offset, i) ==
  LET col == sch.cols[i]
      dst == appended_offset + CellOffset(sch, i)
  IN IF col.is_nullable /\ IsNull(sch, m.row, 0, i)
     THEN m
     ELSE IF col.type = "STRING"
     THEN LET slice == Read(m.rows, dst, 16)
              offset_in_indirect == Len(m.indirect_data)
          IN [m EXCEPT
                !.indirect_data = @ \o Deref(HeapBase, Heap, SlicePtr(slice), SliceSize(slice)),
                !.rows = Write(@, dst, SliceBytes(Word(offset_in_indirect), SliceSize(slice)))]
     ELSE m

\* mutant: the offset is taken after the payload was appended
EncodeCellOffsetAfter(sch, m, appended_offset, i) ==
  LET col == sch.cols[i]
      dst == appended_offset + CellOffset(sch, i)
  IN IF col.is_nullable /\ IsNull(sch, m.row, 0, i)
     THEN [m EXCEPT !.rows = Write(@, dst, Bytes(0, TypeSize(col.type)))]
     ELSE IF col.type = "STRING"
     THEN LET slice == Read(m.rows, dst, 16)
              payload == Deref(HeapBase, Heap, SlicePtr(slice), SliceSize(slice))
              offset_in_indirect == Len(m.indirect_data) + Len(payload)
          IN [m EXCEPT
                !.indirect_data = @ \o payload,
                !.rows = Write(@, dst, SliceBytes(Word(offset_in_indirect), SliceSize(slice)))]
     ELSE m

\* one pass of the column loop of AddRowToRowBlockPB. m holds the block's two
\* strings and the caller's row (row.row_data()); the cell worked on is the one
\* of the copy at appended_offset
EncodeCell(sch, m, appended_offset, i) ==
  LET col == sch.cols[i]
      dst == appended_offset + CellOffset(sch, i)
  IN IF col.is_nullable /\ IsNull(sch, m.row, 0, i)
     THEN [m EXCEPT !.rows = Write(@, dst, Bytes(0, TypeSize(col.type)))]
     ELSE IF col.type = "STRING"
     THEN LET slice == Read(m.rows, dst, 16)
              offset_in_indirect == Len(m.indirect_data)
          IN [m EXCEPT
                !.indirect_data = @ \o Deref(HeapBase, Heap, SlicePtr(slice), SliceSize(slice)),
                !.rows = Write(@, dst, SliceBytes(Word(offset_in_indirect), SliceSize(slice)))]
     ELSE m

RECURSIVE EncodeCols(_, _, _, _)
EncodeCols(sch, m, appended_offset, i) ==
  IF i > NumColumns(sch) THEN m
  ELSE EncodeCols(sch, EncodeCell(sch, m, appended_offset, i), appended_offset, i + 1)

\* AddRowToRowBlockPB(row, pb): the block's rows and indirect_data afterwards,
\* and the caller's row afterwards
AddRowToRowBlockPB(sch, row, pb) ==
  EncodeCols(sch,
             [rows |-> pb.rows \o row, indirect_data |-> pb.indirect_data, row |-> row],
             Len(pb.rows), 1)

\* ---------------------------------------------------------------- ExtractRowsFromRowBlockPB

\* col.ToString()
ColumnToString(col) ==
  col.name \o "[" \o col.type \o (IF col.is_nullable THEN " NULLABLE" ELSE " NOT NULL") \o "]"

SizeCorruption(bytes, row_size) ==
  MakeStatus("Corruption",
             "Row block has " \o ToString(bytes) \o " bytes of data which is not a "
               \o "multiple of row size " \o ToString(row_size), "", -1)

SliceCorruption(row_idx, col, slice) ==
  MakeStatus("Corruption",
             "Row #" \o ToString(row_idx) \o " contained bad indirect slice for column "
               \o ColumnToString(col) \o ": (" \o WordStr(SlicePtr(slice)) \o ", "
               \o WordStr(SliceSize(slice)) \o ")", "", -1)

\* mutant: the sum is compared without looking at the overflow flag
FixupCellNoOverflowCheck(sch, data, indir_data, i, offset) ==
  LET col == sch.cols[i]
      dst == offset + CellOffset(sch, i)
  IN IF ~col.is_nullable \/ ~IsNull(sch, data, offset, i)
     THEN LET slice == Read(data, dst, 16)
              max_offset == AddWithOverflowCheck(SlicePtr(slice), SliceSize(slice))
          IN IF WordGT(max_offset.sum, Word(Len(indir_data)))
             THEN [bad |-> TRUE, data |-> data]
             ELSE [bad |-> FALSE,
                   data |-> Write(data, dst,
                                  SliceBytes(AddCarry(IndirBase, SlicePtr(slice), 0).sum,
                                             SliceSize(slice)))]
     ELSE [bad |-> FALSE, data |-> data]

\* mutant: the slice is rewritten to the start of indir_data, the offset dropped
FixupCellNoOffset(sch, data, indir_data, i, offset) ==
  LET col == sch.cols[i]
      dst == offset + CellOffset(sch, i)
  IN IF ~col.is_nullable \/ ~IsNull(sch, data, offset, i)
     THEN LET slice == Read(data, dst, 16)
              max_offset == AddWithOverflowCheck(SlicePtr(slice), SliceSize(slice))
          IN IF max_offset.overflowed \/ WordGT(max_offset.sum, Word(Len(indir_data)))
             THEN [bad |-> TRUE, data |-> data]
             ELSE [bad |-> FALSE,
                   data |-> Write(data, dst, SliceBytes(IndirBase, SliceSize(slice)))]
     ELSE [bad |-> FALSE, data |-> data]

\* the body of the row loop for the row at offset and string column i: bad
\* when the slice does not lie within indir_data, else data with the slice
\* rewritten to point into indir_data
FixupCell(sch, data, indir_data, i, offset) ==
  LET col == sch.cols[i]
      dst == offset + CellOffset(sch, i)
  IN IF ~col.is_nullable \/ ~IsNull(sch, data, offset, i)
     THEN LET slice == Read(data, dst, 16)
              offset_in_indirect == SlicePtr(slice)
              max_offset == AddWithOverflowCheck(offset_in_indirect, SliceSize(slice))
          IN IF max_offset.overflowed \/ WordGT(max_offset.sum, Word(Len(indir_data)))
             THEN [bad |-> TRUE, data |-> data]
             ELSE [bad |-> FALSE,
                   data |-> Write(data, dst,
                                  SliceBytes(PtrAdd(IndirBase, Val(offset_in_indirect)),
                                             SliceSize(slice)))]
     ELSE [bad |-> FALSE, data |-> data]

\* the while loop over the rows for column i, from the row at offset on
RECURSIVE FixupRows(_, _, _, _, _, _)
FixupRows(sch, data, indir_data, i, row_idx, offset) ==
  IF ~(offset < Len(data))
  THEN [bad |-> FALSE, data |-> data, row_idx |-> row_idx, col |-> i]
  ELSE LET r == FixupCell(sch, data, indir_data, i, offset)
       IN IF r.bad
          THEN [bad |-> TRUE, data |-> data, row_idx |-> row_idx, col |-> i]
          ELSE FixupRows(sch, r.data, indir_data, i, row_idx + 1, offset + RowSize(sch))

\* the for loop over the columns, from column i on
RECURSIVE FixupCols(_, _, _, _)
FixupCols(sch, data, indir_data, i) ==
  IF i > NumColumns(sch)
  THEN [bad |-> FALSE, data |-> data, row_idx |-> 0, col |-> 0]
  ELSE IF sch.cols[i].type # "STRING"
  THEN FixupCols(sch, data, indir_data, i + 1)
  ELSE LET r == FixupRows(sch, data, indir_data, i, 0, 0)
       IN IF r.bad THEN r ELSE FixupCols(sch, r.data, indir_data, i + 1)

\* the final while loop: one pointer per row, as the row's offset in row_data
RowPtrs(size, row_size) == [k \in 1..(size \div row_size) |-> (k - 1) * row_size]

\* lines 155-196: the fix-up of every string column, then the rows pushed
FixupAndPush(sch, pb, out) ==
  LET fix == FixupCols(sch, pb.rows, pb.indirect_data, 1)
  IN IF fix.bad
     THEN [status |-> SliceCorruption(fix.row_idx, sch.cols[fix.col],
                                      Cell(sch, fix.data, fix.row_idx * RowSize(sch), fix.col)),
           pb |-> [pb EXCEPT !.rows = fix.data],
           rows |-> out]
     ELSE [status |-> StatusOK,
           pb |-> [pb EXCEPT !.rows = fix.data],
           rows |-> out \o RowPtrs(Len(pb.rows), RowSize(sch))]

\* mutant: the size is checked after the complete rows were fixed up
ExtractSizeCheckLast(sch, pb, out) ==
  LET row_size == RowSize(sch)
      whole == (Len(pb.rows) \div row_size) * row_size
      r == FixupAndPush(sch, [pb EXCEPT !.rows = SubSeq(pb.rows, 1, whole)], out)
  IN IF r.status.code # "OK"
     THEN [r EXCEPT !.pb.rows = @ \o SubSeq(pb.rows, whole + 1, Len(pb.rows))]
     ELSE IF Len(pb.rows) % row_size # 0
     THEN [status |-> SizeCorruption(Len(pb.rows), row_size),
           pb |-> [pb EXCEPT !.rows = r.pb.rows \o SubSeq(pb.rows, whole + 1, Len(pb.rows))],
           rows |-> out]
     ELSE r

\* mutant: the rows are pushed before the string columns are fixed up
ExtractPushFirst(sch, pb, out) ==
  LET row_size == RowSize(sch)
      r == FixupAndPush(sch, pb, out)
  IN IF Len(pb.rows) % row_size # 0
     THEN [status |-> SizeCorruption(Len(pb.rows), row_size), pb |-> pb, rows |-> out]
     ELSE [r EXCEPT !.rows = out \o RowPtrs(Len(pb.rows), row_size)]

\* ExtractRowsFromRowBlockPB(schema, rowblock_pb, rows): the returned Status,
\* the block afterwards (row_data is rewritten in place) and the vector afterwards
ExtractRowsFromRowBlockPB(sch, pb, out) ==
  LET row_size == RowSize(sch)
  IN IF Len(pb.rows) % row_size # 0
     THEN [status |-> SizeCorruption(Len(pb.rows), row_size), pb |-> pb, rows |-> out]
     ELSE FixupAndPush(sch, pb, out)

\* ---------------------------------------------------------------- the wire

EmptyBlock == [rows |-> <<>>, indirect_data |-> <<>>]

NoTamper == [kind |-> "none", row |-> 0, col |-> 0, ptr |-> <<>>, size |-> <<>>, n |-> 0]

StringCols(sch) == {i \in 1..NumColumns(sch) : sch.cols[i].type = "STRING"}

\* what a peer (or the network) may have done to a block before it is decoded
Tampers(sch, pb) ==
  LET nrows == Len(pb.rows) \div RowSize(sch)
  IN {NoTamper}
     \cup {[NoTamper EXCEPT !.kind = "slice", !.row = r, !.col = c, !.ptr = p, !.size = z] :
             r \in 0..(nrows - 1), c \in StringCols(sch),
             <<p, z>> \in {<<MaxWord, Word(1)>>, <<Word(0), MaxWord>>,
                           <<Word(Len(pb.indirect_data)), Word(0)>>,
                           <<Word(Len(pb.indirect_data)), Word(1)>>}}
     \cup {[NoTamper EXCEPT !.kind = "nullbit", !.row = r, !.col = c] :
             r \in 0..(nrows - 1), c \in NullableCols(sch)}
     \cup {[NoTamper EXCEPT !.kind = "grow"]}
     \cup {[NoTamper EXCEPT !.kind = "shrink"] : x \in {1} \cap (1..Len(pb.rows))}
     \cup {[NoTamper EXCEPT !.kind = "cut"] : x \in {1} \cap (1..Len(pb.indirect_data))}
     \cup {[NoTamper EXCEPT !.kind = "assign", !.n = k] : k \in {1, RowSize(sch)}}

\* the block that arrives
Tampered(sch, pb, t) ==
  CASE t.kind = "slice" ->
         [pb EXCEPT !.rows = Write(@, t.row * RowSize(sch) + CellOffset(sch, t.col),
                                   SliceBytes(t.ptr, t.size))]
    [] t.kind = "nullbit" ->
         LET at == t.row * RowSize(sch) + (NullBit(sch, t.col) \div 8)
             bit == Pow2(NullBit(sch, t.col) % 8)
             byte == pb.rows[at + 1]
         IN [pb EXCEPT !.rows = Write(@, at, <<IF IsNull(sch, pb.rows, t.row * RowSize(sch), t.col)
                                                THEN byte - bit ELSE byte + bit>>)]
    [] t.kind = "grow" -> [pb EXCEPT !.rows = Append(@, 0)]
    [] t.kind = "shrink" -> [pb EXCEPT !.rows = SubSeq(@, 1, Len(@) - 1)]
    [] t.kind = "cut" -> [pb EXCEPT !.indirect_data = SubSeq(@, 1, Len(@) - 1)]
    [] t.kind = "assign" -> [pb EXCEPT !.rows = Bytes(120, t.n)]
    [] OTHER -> pb

\* ---------------------------------------------------------------- reading rows

\* what a reader sees in column i of the row at offset off: null, or the
\* cell's value (a string cell's bytes are read through its Slice into mem at base)
ReadCell(sch, data, off, i, base, mem) ==
  IF sch.cols[i].is_nullable /\ IsNull(sch, data, off, i)
  THEN [null |-> TRUE, value |-> <<>>]
  ELSE IF sch.cols[i].type = "STRING"
  THEN LET slice == Cell(sch, data, off, i)
       IN [null |-> FALSE, value |-> Deref(base, mem, SlicePtr(slice), SliceSize(slice))]
  ELSE [null |-> FALSE, value |-> Cell(sch, data, off, i)]

\* the row the caller handed over, column by column
SourceRow(sch, row) == [i \in 1..NumColumns(sch) |-> ReadCell(sch, row, 0, i, HeapBase, Heap)]

\* the row at offset off of a decoded block, column by column
DecodedRow(sch, pb, off) ==
  [i \in 1..NumColumns(sch) |-> ReadCell(sch, pb.rows, off, i, IndirBase, pb.indirect_data)]

\* ---------------------------------------------------------------- actions: Status

StatusIdle == st = StatusOK /\ st_pb = ClearedStatusPB /\ st_out = StatusOK /\ st_pc = "idle"

\* StatusToPB(status, &pb)
DoStatusToPB ==
  /\ st_pc = "start"
  /\ st_pb' = StatusToPB(st)
  /\ st_pc' = "encoded"
  /\ UNCHANGED <<st, st_out, schema_vars, block_vars>>

\* s2 = StatusFromPB(pb)
DoStatusFromPB ==
  /\ st_pc = "encoded"
  /\ st_out' = StatusFromPB(st_pb)
  /\ st_pc' = "decoded"
  /\ UNCHANGED <<st, st_pb, schema_vars, block_vars>>

\* ---------------------------------------------------------------- actions: Schema

SchemaIdle ==
  /\ schema_in = NoSchema /\ column_pbs = <<>> /\ schema_out = EmptySchema
  /\ schema_pre = EmptySchema /\ sch_status = StatusOK /\ sch_pc = "idle"

\* SchemaToColumnPBs(schema1, &pbs) on a valid Schema
DoSchemaToColumnPBs ==
  /\ sch_pc = "start"
  /\ \E s \in ValidSchemas :
       /\ schema_in' = s
       /\ column_pbs' = SchemaToColumnPBs(s)
  /\ sch_pc' = "wire"
  /\ UNCHANGED <<schema_out, schema_pre, sch_status, status_vars, block_vars>>

\* a column list arrives from a peer
ReceiveColumnPBs ==
  /\ sch_pc = "start"
  /\ \E pbs \in WireColumnLists : column_pbs' = pbs
  /\ sch_pc' = "wire"
  /\ UNCHANGED <<schema_in, schema_out, schema_pre, sch_status, status_vars, block_vars>>

\* s = ColumnPBsToSchema(pbs, &schema)
DoColumnPBsToSchema ==
  /\ sch_pc = "wire"
  /\ \E r \in {ColumnPBsToSchema(column_pbs, schema_out)} :
        /\ sch_status' = r.status
        /\ schema_out' = r.schema
  /\ schema_pre' = schema_out
  /\ sch_pc' = "done"
  /\ UNCHANGED <<schema_in, column_pbs, status_vars, block_vars>>

\* ---------------------------------------------------------------- actions: row block

BlockIdle ==
  /\ schema = EmptySchema /\ src_rows = <<>> /\ rowblock_pb = EmptyBlock
  /\ tamper = NoTamper /\ call_pb = EmptyBlock
  /\ rows = <<>> /\ rows_pre = <<>> /\ ex_status = StatusOK /\ blk_pc = "idle"

\* AddRowToRowBlockPB(rb.row(), &pb)
AddRow ==
  /\ blk_pc = "encode"
  /\ Len(src_rows) < MaxRows
  /\ \E row \in SourceRows(schema, Len(src_rows)) :
       \E m \in {AddRowToRowBlockPB(schema, row, rowblock_pb)} :
          /\ rowblock_pb' = [rows |-> m.rows, indirect_data |-> m.indirect_data]
          /\ src_rows' = Append(src_rows, [given |-> row, row_data |-> m.row])
  /\ UNCHANGED <<schema, tamper, call_pb, rows, rows_pre, ex_status, blk_pc,
                 status_vars, schema_vars>>

\* the block goes over the wire and arrives, as sent or not
Deliver ==
  /\ blk_pc = "encode"
  /\ \E t \in Tampers(schema, rowblock_pb) :
       /\ tamper' = t
       /\ rowblock_pb' = Tampered(schema, rowblock_pb, t)
  /\ blk_pc' = "received"
  /\ UNCHANGED <<schema, src_rows, call_pb, rows, rows_pre, ex_status,
                 status_vars, schema_vars>>

\* s = ExtractRowsFromRowBlockPB(schema, &pb, &row_ptrs)
Extract ==
  /\ blk_pc = "received"
  /\ \E r \in {ExtractRowsFromRowBlockPB(schema, rowblock_pb, rows)} :
        /\ ex_status' = r.status
        /\ rowblock_pb' = r.pb
        /\ rows' = r.rows
  /\ rows_pre' = rows
  /\ call_pb' = rowblock_pb
  /\ blk_pc' = "done"
  /\ UNCHANGED <<schema, src_rows, tamper, status_vars, schema_vars>>

\* ---------------------------------------------------------------- specifications

\* Status round trips
InitStatus ==
  /\ st \in StatusInputs /\ st_pb = ClearedStatusPB /\ st_out = StatusOK /\ st_pc = "start"
  /\ SchemaIdle /\ BlockIdle
NextStatus == DoStatusToPB \/ DoStatusFromPB
SpecStatus == InitStatus /\ [][NextStatus]_vars

\* Schema conversions
InitSchema ==
  /\ schema_in = NoSchema /\ column_pbs = <<>> /\ schema_out \in {EmptySchema, OldSchema}
  /\ schema_pre = schema_out /\ sch_status = StatusOK /\ sch_pc = "start"
  /\ StatusIdle /\ BlockIdle
NextSchema == DoSchemaToColumnPBs \/ ReceiveColumnPBs \/ DoColumnPBsToSchema
SpecSchema == InitSchema /\ [][NextSchema]_vars

\* the caller's vector already holds a pointer (-1, into no block) from an
\* earlier use, as row_ptrs does in TestInvalidRowBlock's second call
StaleRows == <<-1>>

\* Row blocks: rows are appended, the block is delivered and decoded
Init ==
  /\ schema \in BlockSchemas /\ src_rows = <<>> /\ rowblock_pb = EmptyBlock
  /\ tamper = NoTamper /\ call_pb = EmptyBlock
  /\ rows = StaleRows /\ rows_pre = StaleRows /\ ex_status = StatusOK
  /\ blk_pc = "encode"
  /\ StatusIdle /\ SchemaIdle
Next == AddRow \/ Deliver \/ Extract
Spec == Init /\ [][Next]_vars

\* ---------------------------------------------------------------- properties: row block

\* the payloads of the non-null string cells of rows 1..k-1 and of columns
\* 1..c of row k, in append order
RECURSIVE Payloads(_, _, _, _)
Payloads(sch, srcs, k, c) ==
  IF k = 0 THEN <<>>
  ELSE IF c = 0 THEN Payloads(sch, srcs, k - 1, NumColumns(sch))
  ELSE LET cell == SourceRow(sch, srcs[k].given)[c]
       IN Payloads(sch, srcs, k, c - 1)
            \o (IF sch.cols[c].type = "STRING" /\ ~cell.null THEN cell.value ELSE <<>>)

\* the block after the first k of the rows were appended to an empty block
RECURSIVE BlockAfter(_, _, _)
BlockAfter(sch, srcs, k) ==
  IF k = 0 THEN EmptyBlock
  ELSE LET m == AddRowToRowBlockPB(sch, srcs[k].given, BlockAfter(sch, srcs, k - 1))
       IN [rows |-> m.rows, indirect_data |-> m.indirect_data]

IsPrefix(a, b) == Len(a) <= Len(b) /\ a = SubSeq(b, 1, Len(a))

\* the string cells of a block that are not (nullable and marked null), as
\* <<row, column>>, rows counted from 0
LiveStringCells(sch, pb) ==
  {rc \in (0..((Len(pb.rows) \div RowSize(sch)) - 1)) \X StringCols(sch) :
     ~(sch.cols[rc[2]].is_nullable /\ IsNull(sch, pb.rows, rc[1] * RowSize(sch), rc[2]))}

\* offset + length, as numbers and not as words, is more than n (n < 2^24)
SumExceeds(ptr, size, n) ==
  \/ \E i \in 4..8 : ptr[i] # 0 \/ size[i] # 0
  \/ Val(SubSeq(ptr, 1, 3)) + Val(SubSeq(size, 1, 3)) > n

\* the cells whose descriptor does not lie within the indirect buffer
BadCells(sch, pb) ==
  {rc \in LiveStringCells(sch, pb) :
     LET cell == Cell(sch, pb.rows, rc[1] * RowSize(sch), rc[2])
     IN SumExceeds(SlicePtr(cell), SliceSize(cell), Len(pb.indirect_data))}

\* C1: rows appended in order to an empty block and extracted once from that
\* block: the call succeeds and adds one pointer per row, in append order, and
\* row k reads back as it was given: null cells null, the others with the same
\* bytes
C1_RowBlockRoundTrip ==
  (blk_pc = "done" /\ tamper.kind = "none") =>
     /\ ex_status.code = "OK"
     /\ Len(rows) = Len(rows_pre) + Len(src_rows)
     /\ \A k \in 1..Len(src_rows) :
           DecodedRow(schema, rowblock_pb, rows[Len(rows_pre) + k])
             = SourceRow(schema, src_rows[k].given)

\* two or more rows with a null string cell, a null number, and string cells of
\* different payloads, read back
C1_Witness ==
  /\ blk_pc = "done" /\ tamper.kind = "none" /\ ex_status.code = "OK"
  /\ Len(src_rows) >= 2
  /\ \E k \in 1..Len(src_rows), c \in StringCols(schema) :
        SourceRow(schema, src_rows[k].given)[c].null
  /\ \E k \in 1..Len(src_rows), c \in StringCols(schema) :
        /\ ~SourceRow(schema, src_rows[k].given)[c].null
        /\ Len(DecodedRow(schema, rowblock_pb, rows[Len(rows_pre) + k])[c].value) = 2
  /\ \E c \in 1..NumColumns(schema) :
        /\ schema.cols[c].type = "UINT32"
        /\ ~SourceRow(schema, src_rows[1].given)[c].null
        /\ SourceRow(schema, src_rows[2].given)[c].null

C3_SizeCheck ==
  blk_pc = "done" =>
     /\ Len(call_pb.rows) % RowSize(schema) # 0 =>
           /\ ex_status = SizeCorruption(Len(call_pb.rows), RowSize(schema))
           /\ rowblock_pb = call_pb
     /\ Len(call_pb.rows) = 0 => (ex_status.code = "OK" /\ rows = rows_pre)

\* one byte too many after whole rows that hold a live string cell, which a
\* fix-up would have rewritten
C3_Witness ==
  /\ blk_pc = "done" /\ tamper.kind = "grow"
  /\ Len(call_pb.rows) > RowSize(schema)
  /\ \E k \in 1..Len(src_rows), c \in StringCols(schema) :
        ~SourceRow(schema, src_rows[k].given)[c].null
  /\ ex_status.code = "Corruption"
  /\ rowblock_pb = call_pb

\* C7: whenever the call returns a non-OK status the output vector is as it
\* was before the call; on success it gains one pointer per row of the buffer,
\* in row-buffer order
C7_RowsOnlyWhenReady ==
  blk_pc = "done" =>
     /\ ex_status.code # "OK" => rows = rows_pre
     /\ ex_status.code = "OK" =>
           /\ Len(rows) = Len(rows_pre) + (Len(call_pb.rows) \div RowSize(schema))
           /\ SubSeq(rows, 1, Len(rows_pre)) = rows_pre
           /\ \A k \in 1..(Len(call_pb.rows) \div RowSize(schema)) :
                 rows[Len(rows_pre) + k] = (k - 1) * RowSize(schema)

\* a call that was rejected after it had rewritten some descriptors
C7_Witness ==
  /\ blk_pc = "done" /\ ex_status.code = "Corruption"
  /\ Len(call_pb.rows) % RowSize(schema) = 0
  /\ rowblock_pb # call_pb
  /\ rows = rows_pre

\* the sizes held by the live string cells of a block, summed over the cells
\* in S
RECURSIVE SumSizes(_, _, _)
SumSizes(sch, pb, S) ==
  IF S = {} THEN 0
  ELSE LET rc == CHOOSE x \in S : TRUE
       IN Val(SliceSize(Cell(sch, pb.rows, rc[1] * RowSize(sch), rc[2])))
            + SumSizes(sch, pb, S \ {rc})

\* C8: after any sequence of appends, for every appended row and every
\* nullable column the row marks null, the column's slot in the row buffer is
\* all zero, the indirect buffer holds no payload for it (its length is the
\* sum of the sizes of the live string cells), and the caller's row is as it
\* was given
C8_NullCellsZeroed ==
  blk_pc = "encode" =>
     /\ \A k \in 1..Len(src_rows) :
           /\ src_rows[k].row_data = src_rows[k].given
           /\ \A c \in NullableCols(schema) :
                 IsNull(schema, src_rows[k].given, 0, c) =>
                    /\ IsNull(schema, rowblock_pb.rows, (k - 1) * RowSize(schema), c)
                    /\ Cell(schema, rowblock_pb.rows, (k - 1) * RowSize(schema), c)
                         = Bytes(0, TypeSize(schema.cols[c].type))
     /\ Len(rowblock_pb.indirect_data)
          = SumSizes(schema, rowblock_pb, LiveStringCells(schema, rowblock_pb))

\* a second row with a null string cell whose slot held a pointer into the
\* caller's heap
C8_Witness ==
  /\ blk_pc = "encode" /\ Len(src_rows) >= 2
  /\ \E c \in StringCols(schema) \cap NullableCols(schema) :
        /\ IsNull(schema, src_rows[2].given, 0, c)
        /\ Cell(schema, src_rows[2].given, 0, c) # Bytes(0, 16)
        /\ Cell(schema, rowblock_pb.rows, RowSize(schema), c) = Bytes(0, 16)

\* C10: after any sequence of appends to an empty block, the row buffer holds
\* one slot per row, the indirect buffer is the concatenation of the payloads
\* of the non-null string cells in append order, each such cell holds the
\* offset its payload was appended at and the payload's length, within the
\* indirect buffer, and the block before the last append is a prefix of the
\* block after it
C10_BlockLayout ==
  blk_pc = "encode" =>
     LET n == Len(src_rows)
         before == BlockAfter(schema, src_rows, n - 1)
     IN /\ Len(rowblock_pb.rows) = n * RowSize(schema)
        /\ rowblock_pb.indirect_data = Payloads(schema, src_rows, n, NumColumns(schema))
        /\ \A k \in 1..n, c \in StringCols(schema) :
              LET src == SourceRow(schema, src_rows[k].given)[c]
                  cell == Cell(schema, rowblock_pb.rows, (k - 1) * RowSize(schema), c)
              IN ~src.null =>
                    /\ SlicePtr(cell) = Word(Len(Payloads(schema, src_rows, k, c - 1)))
                    /\ SliceSize(cell) = Word(Len(src.value))
                    /\ Val(SlicePtr(cell)) + Val(SliceSize(cell))
                         <= Len(rowblock_pb.indirect_data)
        /\ n >= 1 =>
              /\ IsPrefix(before.rows, rowblock_pb.rows)
              /\ IsPrefix(before.indirect_data, rowblock_pb.indirect_data)

\* two rows with two or more payloads, the last one not at offset 0
C10_Witness ==
  /\ blk_pc = "encode" /\ Len(src_rows) >= 2
  /\ Len(rowblock_pb.indirect_data) >= 3
  /\ \E c \in StringCols(schema) :
        /\ ~SourceRow(schema, src_rows[2].given)[c].null
        /\ Val(SlicePtr(Cell(schema, rowblock_pb.rows, RowSize(schema), c))) >= 2
        /\ Val(SliceSize(Cell(schema, rowblock_pb.rows, RowSize(schema), c))) >= 1

\* ---------------------------------------------------------------- properties: Status

\* the kinds of Status that have a code in the wire status enum
WireKinds == {"OK"} \cup ErrorKinds

\* C9: for every status whose kind has a code in the wire status enum,
\* StatusFromPB(StatusToPB(s)) has the same kind, the same message and the same
\* posix code; an OK status is encoded with code OK and neither a message nor
\* a posix code; a posix code is encoded only when the status has one
C9_StatusRoundTrip ==
  /\ (st_pc \in {"encoded", "decoded"} /\ st.code = "OK") =>
        /\ st_pb.code = "OK" /\ ~st_pb.has_message /\ ~st_pb.has_posix_code
  /\ st_pc \in {"encoded", "decoded"} => (st_pb.has_posix_code <=> st.posix_code # -1)
  /\ (st_pc = "decoded" /\ st.code \in WireKinds) =>
        /\ st_out.code = st.code
        /\ st_out.msg = st.msg
        /\ st_out.posix_code = st.posix_code

\* ---------------------------------------------------------------- properties: Schema

\* the entries with is_key set that come after an entry without
OutOfOrderKeys(pbs) ==
  {i \in 1..Len(pbs) : pbs[i].is_key /\ \E j \in 1..(i - 1) : ~pbs[j].is_key}

\* the names that two entries share
DuplicateNames(pbs) ==
  {pbs[i].name : i \in {i \in 1..Len(pbs) : \E j \in 1..(i - 1) : pbs[j].name = pbs[i].name}}

\* C4: for every valid schema, ColumnPBsToSchema(SchemaToColumnPBs(schema))
\* succeeds and yields the same columns (name, type, nullability) in the same
\* order and the same num_key_columns; SchemaToColumnPBs emits one entry per
\* column, is_key true exactly for the indexes below num_key_columns
C4_SchemaRoundTrip ==
  /\ (sch_pc \in {"wire", "done"} /\ schema_in # NoSchema) =>
        /\ Len(column_pbs) = Len(schema_in.cols)
        /\ \A i \in 1..Len(column_pbs) :
              /\ column_pbs[i].is_key <=> (i - 1 < schema_in.num_key_columns)
              /\ column_pbs[i].name = schema_in.cols[i].name
  /\ (sch_pc = "done" /\ schema_in # NoSchema) =>
        /\ sch_status.code = "OK"
        /\ schema_out.cols = schema_in.cols
        /\ schema_out.num_key_columns = schema_in.num_key_columns

\* a round trip of a schema with key and non-key columns, into a Schema object
\* that held something else
C4_Witness ==
  /\ sch_pc = "done" /\ schema_in # NoSchema /\ schema_pre = OldSchema
  /\ Len(schema_in.cols) >= 3
  /\ schema_in.num_key_columns = 2
  /\ \E i \in 1..3 : schema_in.cols[i].is_nullable /\ schema_in.cols[i].type = "UINT32"
  /\ schema_out = schema_in

\* C5: when some is_key entry comes after a non-key entry, ColumnPBsToSchema
\* fails with InvalidArgument "Got out-of-order key column" citing the first
\* such entry and leaves the output Schema untouched, also when the list holds
\* a duplicate name
C5_OutOfOrderKey ==
  (sch_pc = "done" /\ OutOfOrderKeys(column_pbs) # {}) =>
     LET first == CHOOSE i \in OutOfOrderKeys(column_pbs) :
                    \A j \in OutOfOrderKeys(column_pbs) : i <= j
     IN /\ sch_status.code = "InvalidArgument"
        /\ sch_status.msg = "Got out-of-order key column: "
                              \o ShortDebugString(column_pbs[first])
        /\ schema_out = schema_pre

\* an out-of-order key in a list that also holds a duplicate name and a second
\* out-of-order key, decoded into a Schema object that held something
C5_Witness ==
  /\ sch_pc = "done"
  /\ Cardinality(OutOfOrderKeys(column_pbs)) >= 2
  /\ DuplicateNames(column_pbs) # {}
  /\ schema_pre = OldSchema
  /\ sch_status.code = "InvalidArgument"

\* C6: a column list with contiguous key entries and two entries of the same
\* name fails with InvalidArgument naming a duplicate name, and the caller's
\* Schema is left as it was
C6_DuplicateName ==
  (sch_pc = "done" /\ OutOfOrderKeys(column_pbs) = {} /\ DuplicateNames(column_pbs) # {}) =>
     /\ sch_status.code = "InvalidArgument"
     /\ \E n \in DuplicateNames(column_pbs) :
           sch_status.msg = "Duplicate name present in schema!: " \o n
     /\ schema_out = schema_pre

\* the list of TestBadSchema_DuplicateColumnName: key, non-key, non-key named
\* like the first
C6_Witness ==
  /\ sch_pc = "done"
  /\ Len(column_pbs) = 3
  /\ column_pbs[1].is_key /\ ~column_pbs[2].is_key /\ ~column_pbs[3].is_key
  /\ column_pbs[1].name = column_pbs[3].name /\ column_pbs[1].name # column_pbs[2].name
  /\ sch_status.code = "InvalidArgument"

====
